---------------------------- MODULE Spec2Model ----------------------------
(***************************************************************************)
(* Movie Tracker: the persistence layer (db.py) over the two tables users  *)
(* and movies, and the Streamlit application (app.py) that drives it.      *)
(*                                                                         *)
(* Every db.py function opens its own connection, runs one SQL statement   *)
(* and commits, so one call is one atomic step on the tables.  The storage *)
(* engine works in every specification but SpecFaults, where a call may    *)
(* meet an exception in its try block and take an except branch.           *)
(* api_client.py, the lookup client, is modelled with the answers its one  *)
(* request can get.                                                        *)
(***************************************************************************)
EXTENDS Integers, Sequences, FiniteSets, TLC

VARIABLES
    users,      \* table users: set of rows [id, username, hashed_password]
    userSeq,    \* AUTOINCREMENT counter of users.id
    movies,     \* table movies: set of rows [id, user_id, imdb_id, title, status, user_rating, date_added]
    movieSeq,   \* AUTOINCREMENT counter of movies.id
    clock,      \* the last value datetime.now() returned
    created,    \* history: username -> <<id returned by add_user, hash it stored>>
    lastCall,   \* the most recent direct call of a db.py function, its arguments and its return value
    sess,       \* per browser session: st.session_state.user_id and the position of its script run
    OMDB_API_KEY, \* api_client.OMDB_API_KEY: what os.getenv('OMDB_KEY') gave at import
    ui,         \* per browser session: the add-movie form run and the widgets of the clear-all section
    calls       \* per process: its add_movie call in flight, or the last one it made

vars == <<users, userSeq, movies, movieSeq, clock, created, lastCall, sess, OMDB_API_KEY, ui,
          calls>>

---------------------------------------------------------------------------
(* Bounds of the model. *)
MaxMovieId == 2
MaxEdits == 1

(* Python's None, for an absent id, an absent rating and a failed lookup. *)
None == -1

Usernames == {"alice", "bob"}
Passwords == {1, 2}
Salts == {0, 1}
ImdbIds == {"tt1", "tt2"}
Sessions == {"s1"}
UserIds == {1, 2}
Times == {0, 1}
UserIdArgs == {None} \cup UserIds
MovieIdArgs == 1 .. MaxMovieId

WantToWatch == "Want to Watch"
Watched == "Watched"
Statuses == {WantToWatch, Watched}

(* NumberColumn("Your Rating (1-5)", min_value=1, max_value=5, step=1) *)
MinRating == 1
MaxRating == 5
RatingArgs == {None, MaxRating}

---------------------------------------------------------------------------
(* passlib bcrypt: a salted one-way hash; the pair (password, salt) is     *)
(* encoded as one number so that verify can recover what was hashed.       *)
bcrypt_hash(password, salt) == password * Cardinality(Salts) + salt

bcrypt_verify(password, hashed) == hashed \div Cardinality(Salts) = password

(* The record the lookup client returns for a catalog item. *)
TitleOf(imdb) == IF imdb = "tt1" THEN "Inception" ELSE "The Matrix"

MovieData(imdb) == [imdbID |-> imdb, Title |-> TitleOf(imdb)]

---------------------------------------------------------------------------
(* api_client.py and the provider it queries.                              *)

(* What os.getenv('OMDB_KEY') can give: None when the variable is unset. *)
ApiKeyValues == {None, 1}

(* Titles a caller asks for: two the provider matches and one it does not. *)
Titles == {"Inception", "The Matrix", "Nonexistent"}

(* The JSON object the provider answers a title with: the matching record, *)
(* or Response "False" with an error message.                              *)
ProviderJson(title) ==
    IF \E imdb \in ImdbIds : TitleOf(imdb) = title
    THEN LET imdb == CHOOSE i \in ImdbIds : TitleOf(i) = title
         IN  [Response |-> "True", imdbID |-> imdb, Title |-> title]
    ELSE [Response |-> "False", Error |-> "Movie not found!"]

(* What requests.get(OMDB_BASE_URL, params) can come back with: a          *)
(* connection failure, a non-2xx status, a body that is not JSON, or the   *)
(* provider's answer; without a key the provider answers 401.  json holds  *)
(* the decoded body, or nothing when the body does not decode.             *)
Provider(params) ==
    {[exc |-> "requests.ConnectionError", status_code |-> 0, json |-> <<>>]}
    \cup (IF params.apikey = None
          THEN {[exc |-> "", status_code |-> 401,
                 json |-> <<[Response |-> "False", Error |-> "No API key provided."]>>]}
          ELSE {[exc |-> "", status_code |-> 200, json |-> <<ProviderJson(params.t)>>],
                [exc |-> "", status_code |-> 200, json |-> <<>>],
                [exc |-> "", status_code |-> 500, json |-> <<>>]})

(* Python's exception classes: is an exception of class exc caught by      *)
(* `except cls`?                                                           *)
IsA(exc, cls) ==
    \/ cls = exc
    \/ cls = "Exception"
    \/ cls = "requests.RequestException"
            /\ exc \in {"requests.ConnectionError", "requests.HTTPError"}
    \/ cls = "sqlite3.Error"
            /\ exc \in {"sqlite3.IntegrityError", "sqlite3.OperationalError"}

(* An exception leaves a function when none of its except clauses is of    *)
(* its class.                                                              *)
Propagates(exc, handlers) == \A i \in DOMAIN handlers : ~IsA(exc, handlers[i])

(* The except clauses of get_movie_details. *)
get_movie_details_handlers == <<"requests.RequestException", "Exception">>

(* The request get_movie_details builds. *)
RequestParams(title) == [t |-> title, apikey |-> OMDB_API_KEY]

(* get_movie_details that tries the request once more when it failed. *)
get_movie_details_retry(title, response) ==
    LET params == RequestParams(title)
        failed == response.exc # "" \/ response.status_code >= 400 \/ response.json = <<>>
    IN  IF failed
        THEN [ret |-> <<>>, sent |-> <<params, params>>, raised |-> FALSE]
        ELSE [ret    |-> IF response.json[1].Response = "True" THEN response.json ELSE <<>>,
              sent   |-> <<params>>,
              raised |-> FALSE]

(* api_client.get_movie_details, for the answer `response` of the one      *)
(* requests.get it issues.  ret is the returned value, <<>> for None and   *)
(* <<data>> for the dictionary; sent lists the requests issued; raised     *)
(* tells whether an exception leaves the function.                         *)
get_movie_details(title, response) ==
    LET params == RequestParams(title)
        exc == IF response.exc # "" THEN response.exc             \* requests.get raises
               ELSE IF response.status_code >= 400 THEN "requests.HTTPError"  \* raise_for_status
               ELSE IF response.json = <<>> THEN "ValueError"     \* response.json()
               ELSE ""
    IN  IF exc # ""
        THEN [ret    |-> <<>>,
              sent   |-> <<params>>,
              raised |-> Propagates(exc, get_movie_details_handlers)]
        ELSE LET data == response.json[1]
             IN  [ret    |-> IF data.Response = "True" THEN <<data>> ELSE <<>>,
                  sent   |-> <<params>>,
                  raised |-> FALSE]

---------------------------------------------------------------------------
(* add_user with INSERT OR REPLACE: a taken name gets a new row. *)
add_user_replace(username, password, salt) ==
    [ret   |-> userSeq + 1,
     users |-> {u \in users : u.username # username}
                \cup {[id |-> userSeq + 1, username |-> username,
                       hashed_password |-> bcrypt_hash(password, salt)]},
     seq   |-> userSeq + 1]

(* db.add_user: INSERT INTO users; the UNIQUE(username) violation is       *)
(* caught as IntegrityError and answered with None.                        *)
add_user(username, password, salt) ==
    IF \E u \in users : u.username = username
    THEN [ret |-> None, users |-> users, seq |-> userSeq]
    ELSE LET user_id == userSeq + 1
         IN  [ret   |-> user_id,
              users |-> users \cup {[id |-> user_id, username |-> username,
                                     hashed_password |-> bcrypt_hash(password, salt)]},
              seq   |-> user_id]

(* find_user_by_username without its WHERE clause: the first row of the table. *)
find_user_any(username) ==
    IF users # {}
    THEN LET user_data == CHOOSE u \in users : \A v \in users : u.id <= v.id
         IN  <<user_data.id, user_data.hashed_password>>
    ELSE <<None, None>>

(* db.find_user_by_username: SELECT id, hashed_password WHERE username = ? *)
find_user_by_username(username) ==
    IF \E u \in users : u.username = username
    THEN LET user_data == CHOOSE u \in users : u.username = username
         IN  <<user_data.id, user_data.hashed_password>>
    ELSE <<None, None>>

(* add_movie with INSERT OR REPLACE: a second add overwrites the row. *)
add_movie_replace(user_id, movie_data, status, now) ==
    IF user_id = None
    THEN [ret |-> FALSE, movies |-> movies, seq |-> movieSeq]
    ELSE [ret    |-> TRUE,
          movies |-> {m \in movies : ~(m.user_id = user_id /\ m.imdb_id = movie_data.imdbID)}
                     \cup {[id |-> movieSeq + 1, user_id |-> user_id,
                            imdb_id |-> movie_data.imdbID, title |-> movie_data.Title,
                            status |-> status, user_rating |-> None,
                            date_added |-> now]},
          seq    |-> movieSeq + 1]

(* add_movie on a table without the UNIQUE(user_id, imdb_id) constraint. *)
add_movie_unconstrained(user_id, movie_data, status, now) ==
    IF user_id = None
    THEN [ret |-> FALSE, movies |-> movies, seq |-> movieSeq]
    ELSE [ret    |-> TRUE,
          movies |-> movies \cup {[id |-> movieSeq + 1, user_id |-> user_id,
                                   imdb_id |-> movie_data.imdbID,
                                   title |-> movie_data.Title,
                                   status |-> status, user_rating |-> None,
                                   date_added |-> now]},
          seq    |-> movieSeq + 1]

(* add_movie with the superseded constraint UNIQUE(imdb_id): duplicates    *)
(* are detected across all accounts.                                       *)
add_movie_global(user_id, movie_data, status, now) ==
    IF user_id = None
    THEN [ret |-> FALSE, movies |-> movies, seq |-> movieSeq]
    ELSE IF \E m \in movies : m.imdb_id = movie_data.imdbID
    THEN [ret |-> FALSE, movies |-> movies, seq |-> movieSeq]
    ELSE [ret    |-> TRUE,
          movies |-> movies \cup {[id |-> movieSeq + 1, user_id |-> user_id,
                                   imdb_id |-> movie_data.imdbID,
                                   title |-> movie_data.Title,
                                   status |-> status, user_rating |-> None,
                                   date_added |-> now]},
          seq    |-> movieSeq + 1]

(* add_movie without the user_id guard, on a table whose user_id column   *)
(* admits NULL.                                                            *)
add_movie_nullable(user_id, movie_data, status, now) ==
    IF \E m \in movies : m.user_id = user_id /\ m.imdb_id = movie_data.imdbID
    THEN [ret |-> FALSE, movies |-> movies, seq |-> movieSeq]
    ELSE [ret    |-> TRUE,
          movies |-> movies \cup {[id |-> movieSeq + 1, user_id |-> user_id,
                                   imdb_id |-> movie_data.imdbID,
                                   title |-> movie_data.Title,
                                   status |-> status, user_rating |-> None,
                                   date_added |-> now]},
          seq    |-> movieSeq + 1]

(* add_movie that reports a duplicate but still overwrites the status of   *)
(* the row it found.                                                       *)
add_movie_upsert(user_id, movie_data, status, now) ==
    IF user_id = None
    THEN [ret |-> FALSE, movies |-> movies, seq |-> movieSeq]
    ELSE IF \E m \in movies : m.user_id = user_id /\ m.imdb_id = movie_data.imdbID
    THEN [ret    |-> FALSE,
          movies |-> {IF m.user_id = user_id /\ m.imdb_id = movie_data.imdbID
                      THEN [m EXCEPT !.status = status] ELSE m : m \in movies},
          seq    |-> movieSeq]
    ELSE [ret    |-> TRUE,
          movies |-> movies \cup {[id |-> movieSeq + 1, user_id |-> user_id,
                                   imdb_id |-> movie_data.imdbID,
                                   title |-> movie_data.Title,
                                   status |-> status, user_rating |-> None,
                                   date_added |-> now]},
          seq    |-> movieSeq + 1]

(* add_movie on a table whose id is a plain INTEGER PRIMARY KEY: a new row *)
(* takes the largest id in the table plus one, so the id of a deleted last *)
(* row is given out again.                                                 *)
add_movie_rowid(user_id, movie_data, status, now) ==
    IF user_id = None
    THEN [ret |-> FALSE, movies |-> movies, seq |-> movieSeq]
    ELSE IF \E m \in movies : m.user_id = user_id /\ m.imdb_id = movie_data.imdbID
    THEN [ret |-> FALSE, movies |-> movies, seq |-> movieSeq]
    ELSE LET ids == {m.id : m \in movies}
             top == IF ids = {} THEN 0 ELSE CHOOSE i \in ids : \A k \in ids : k <= i
         IN  [ret    |-> TRUE,
              movies |-> movies \cup {[id |-> top + 1, user_id |-> user_id,
                                       imdb_id |-> movie_data.imdbID,
                                       title |-> movie_data.Title,
                                       status |-> status, user_rating |-> None,
                                       date_added |-> now]},
              seq    |-> movieSeq + 1]

(* db.add_movie: INSERT OR IGNORE on UNIQUE(user_id, imdb_id); rowcount    *)
(* tells whether a row was written.  The statement names no rating, so a   *)
(* new row has none.                                                       *)
add_movie(user_id, movie_data, status, now) ==
    IF user_id = None
    THEN [ret |-> FALSE, movies |-> movies, seq |-> movieSeq]
    ELSE IF \E m \in movies : m.user_id = user_id /\ m.imdb_id = movie_data.imdbID
    THEN [ret |-> FALSE, movies |-> movies, seq |-> movieSeq]
    ELSE [ret    |-> TRUE,
          movies |-> movies \cup {[id |-> movieSeq + 1, user_id |-> user_id,
                                   imdb_id |-> movie_data.imdbID,
                                   title |-> movie_data.Title,
                                   status |-> status, user_rating |-> None,
                                   date_added |-> now]},
          seq    |-> movieSeq + 1]

(* The orders in which the engine may return a set of rows under           *)
(* ORDER BY date_added DESC: rows of equal date_added in any order.        *)
OrderedByDateDesc(rows) ==
    {s \in [1 .. Cardinality(rows) -> rows] :
        /\ \A i, j \in DOMAIN s : i # j => s[i] # s[j]
        /\ \A i, j \in DOMAIN s : i < j => s[i].date_added >= s[j].date_added}

(* get_all_movies without its WHERE clause. *)
get_all_movies_everyone(user_id) ==
    IF user_id = None
    THEN {<<>>}
    ELSE OrderedByDateDesc(movies)

(* db.get_all_movies: SELECT ... WHERE user_id = ? ORDER BY date_added DESC *)
get_all_movies(user_id) ==
    IF user_id = None
    THEN {<<>>}
    ELSE OrderedByDateDesc({m \in movies : m.user_id = user_id})

(* delete_all_movies_for_user without its WHERE clause. *)
delete_all_movies(user_id) ==
    IF user_id = None
    THEN [ret |-> 0, movies |-> movies]
    ELSE [ret |-> Cardinality(movies), movies |-> {}]

(* db.delete_all_movies_for_user: DELETE FROM movies WHERE user_id = ?     *)
delete_all_movies_for_user(user_id) ==
    IF user_id = None
    THEN [ret |-> 0, movies |-> movies]
    ELSE [ret    |-> Cardinality({m \in movies : m.user_id = user_id}),
          movies |-> {m \in movies : m.user_id # user_id}]

(* db.update_movie_status: sets the status of the row with that id and     *)
(* answers whether there was such a row.  Its callers in app.py clear the  *)
(* rating with a statement of their own.                                   *)
update_movie_status(movie_db_id, new_status) ==
    [ret    |-> \E m \in movies : m.id = movie_db_id,
     movies |-> {IF m.id = movie_db_id THEN [m EXCEPT !.status = new_status]
                 ELSE m : m \in movies}]

(* db.update_movie_rating: sets the rating of the row with that id.        *)
update_movie_rating(movie_db_id, rating) ==
    [ret    |-> \E m \in movies : m.id = movie_db_id,
     movies |-> {IF m.id = movie_db_id THEN [m EXCEPT !.user_rating = rating]
                 ELSE m : m \in movies}]

(* delete_movie_by_db_id that reports success whether or not a row went. *)
delete_movie_by_db_id_always(movie_db_id) ==
    [ret    |-> TRUE,
     movies |-> {m \in movies : m.id # movie_db_id}]

(* db.delete_movie_by_db_id: deletes the row with that id.                 *)
delete_movie_by_db_id(movie_db_id) ==
    [ret    |-> \E m \in movies : m.id = movie_db_id,
     movies |-> {m \in movies : m.id # movie_db_id}]

---------------------------------------------------------------------------
(* A db.py call during which the engine fails.  An exception raised in the *)
(* try block (by connect, execute or commit, or by bcrypt.hash) is caught  *)
(* by the first except clause of its class; conn.close() in the finally    *)
(* clause ends the uncommitted transaction, so the tables are as before.   *)
EngineFaults == {"sqlite3.IntegrityError", "sqlite3.OperationalError", "TypeError"}

(* add_user with the IntegrityError clause alone. *)
add_user_handlers_integrity == <<"sqlite3.IntegrityError">>

add_user_handlers == <<"sqlite3.IntegrityError", "sqlite3.Error", "Exception">>

find_user_by_username_handlers == <<"sqlite3.Error", "Exception">>

add_movie_handlers == <<"sqlite3.Error", "Exception">>

get_all_movies_handlers == <<"sqlite3.Error", "Exception">>

delete_all_movies_for_user_handlers == <<"sqlite3.Error", "Exception">>

add_user_except(exc) ==
    [ret |-> None, raised |-> Propagates(exc, add_user_handlers)]

find_user_by_username_except(exc) ==
    [ret |-> <<None, None>>, raised |-> Propagates(exc, find_user_by_username_handlers)]

add_movie_except(exc) ==
    [ret |-> FALSE, raised |-> Propagates(exc, add_movie_handlers)]

get_all_movies_except(exc) ==
    [ret |-> <<>>, raised |-> Propagates(exc, get_all_movies_handlers)]

delete_all_movies_for_user_except(exc) ==
    [ret |-> 0, raised |-> Propagates(exc, delete_all_movies_for_user_handlers)]

---------------------------------------------------------------------------
(* A session's page before any interaction: the add-movie form at rest and *)
(* the clear-all section folded.                                           *)
InitUi ==
    [pc |-> "idle", title |-> "", status |-> WantToWatch, api_data |-> <<>>,
     lookups |-> 0, adds |-> 0, prior |-> FALSE, added |-> FALSE, listed |-> <<>>,
     show |-> FALSE, confirm_shown |-> FALSE, confirm |-> FALSE,
     event |-> "none", confirmed |-> FALSE, deleted |-> FALSE]

(* Processes (sessions, scripts) that call add_movie at the same time. *)
Procs == {"p1", "p2"}

Init ==
    /\ users = {}
    /\ userSeq = 0
    /\ movies = {}
    /\ movieSeq = 0
    /\ clock = 0
    /\ created = <<>>
    /\ lastCall = [op |-> "none"]
    /\ sess = [s \in Sessions |-> [user_id |-> None, queue |-> <<>>, mid |-> FALSE]]
    /\ OMDB_API_KEY = 1
    /\ ui = [s \in Sessions |-> InitUi]
    /\ calls = [p \in Procs |-> [pc |-> "idle"]]

(* datetime.now(): the wall clock, read once per add_movie; two reads may  *)
(* give the same value.                                                    *)
Now == {t \in Times : t >= clock}

CallAddUser ==
    \E username \in Usernames, password \in Passwords, salt \in Salts :
        LET r == add_user(username, password, salt)
        IN  /\ users' = r.users
            /\ userSeq' = r.seq
            /\ created' = IF r.ret = None THEN created
                          ELSE (username :> <<r.ret, bcrypt_hash(password, salt)>>) @@ created
            /\ lastCall' = [op |-> "add_user", username |-> username,
                            password |-> password, ret |-> r.ret]
            /\ UNCHANGED <<movies, movieSeq, clock, sess, OMDB_API_KEY, ui, calls>>

CallFindUser ==
    \E username \in Usernames :
        /\ lastCall' = [op |-> "find_user_by_username", username |-> username,
                        ret |-> find_user_by_username(username)]
        /\ UNCHANGED <<users, userSeq, movies, movieSeq, clock, created, sess, OMDB_API_KEY, ui, calls>>

CallAddMovie ==
    \E user_id \in UserIdArgs, imdb \in ImdbIds, status \in Statuses, now \in Now :
        LET r == add_movie(user_id, MovieData(imdb), status, now)
        IN  /\ r.ret => movieSeq < MaxMovieId
            /\ movies' = r.movies
            /\ movieSeq' = r.seq
            /\ clock' = now
            /\ lastCall' = [op |-> "add_movie", user_id |-> user_id, imdb_id |-> imdb,
                            status |-> status, ret |-> r.ret]
            /\ UNCHANGED <<users, userSeq, created, sess, OMDB_API_KEY, ui, calls>>

CallGetAllMovies ==
    \E user_id \in UserIdArgs :
        \E rows \in get_all_movies(user_id) :
            /\ lastCall' = [op |-> "get_all_movies", user_id |-> user_id, ret |-> rows]
            /\ UNCHANGED <<users, userSeq, movies, movieSeq, clock, created, sess, OMDB_API_KEY, ui, calls>>

CallDeleteAll ==
    \E user_id \in UserIdArgs :
        LET r == delete_all_movies_for_user(user_id)
        IN  /\ movies' = r.movies
            /\ lastCall' = [op |-> "delete_all_movies_for_user", user_id |-> user_id,
                            ret |-> r.ret]
            /\ UNCHANGED <<users, userSeq, movieSeq, clock, created, sess, OMDB_API_KEY, ui, calls>>

CallUpdateStatus ==
    \E movie_db_id \in MovieIdArgs, new_status \in Statuses :
        LET r == update_movie_status(movie_db_id, new_status)
        IN  /\ movies' = r.movies
            /\ lastCall' = [op |-> "update_movie_status", movie_db_id |-> movie_db_id,
                            status |-> new_status, ret |-> r.ret]
            /\ UNCHANGED <<users, userSeq, movieSeq, clock, created, sess, OMDB_API_KEY, ui, calls>>

CallUpdateRating ==
    \E movie_db_id \in MovieIdArgs, rating \in RatingArgs :
        LET r == update_movie_rating(movie_db_id, rating)
        IN  /\ movies' = r.movies
            /\ lastCall' = [op |-> "update_movie_rating", movie_db_id |-> movie_db_id,
                            rating |-> rating, ret |-> r.ret]
            /\ UNCHANGED <<users, userSeq, movieSeq, clock, created, sess, OMDB_API_KEY, ui, calls>>

CallDeleteMovie ==
    \E movie_db_id \in MovieIdArgs :
        LET r == delete_movie_by_db_id(movie_db_id)
        IN  /\ movies' = r.movies
            /\ lastCall' = [op |-> "delete_movie_by_db_id", movie_db_id |-> movie_db_id,
                            ret |-> r.ret]
            /\ UNCHANGED <<users, userSeq, movieSeq, clock, created, sess, OMDB_API_KEY, ui, calls>>

(* import api_client: load_dotenv() and os.getenv('OMDB_KEY') *)
ImportApiClient ==
    /\ \E key \in ApiKeyValues : OMDB_API_KEY' = key
    /\ UNCHANGED <<users, userSeq, movies, movieSeq, clock, created, lastCall, sess, ui, calls>>

CallGetMovieDetails ==
    \E title \in Titles :
        \E response \in Provider(RequestParams(title)) :
            LET r == get_movie_details(title, response)
            IN  /\ lastCall' = [op |-> "get_movie_details", title |-> title,
                                apikey |-> OMDB_API_KEY, response |-> response,
                                ret |-> r.ret, sent |-> r.sent, raised |-> r.raised]
                /\ UNCHANGED <<users, userSeq, movies, movieSeq, clock, created, sess,
                               OMDB_API_KEY, ui, calls>>

FailAddUser ==
    \E username \in Usernames, password \in Passwords, exc \in EngineFaults :
        LET r == add_user_except(exc)
        IN  /\ lastCall' = [op |-> "add_user", username |-> username, password |-> password,
                            exc |-> exc, ret |-> r.ret, raised |-> r.raised]
            /\ UNCHANGED <<users, userSeq, movies, movieSeq, clock, created, sess,
                           OMDB_API_KEY, ui, calls>>

FailFindUser ==
    \E username \in Usernames, exc \in EngineFaults :
        LET r == find_user_by_username_except(exc)
        IN  /\ lastCall' = [op |-> "find_user_by_username", username |-> username,
                            exc |-> exc, ret |-> r.ret, raised |-> r.raised]
            /\ UNCHANGED <<users, userSeq, movies, movieSeq, clock, created, sess,
                           OMDB_API_KEY, ui, calls>>

FailAddMovie ==
    \E user_id \in UserIds, imdb \in ImdbIds, status \in Statuses, exc \in EngineFaults :
        LET r == add_movie_except(exc)
        IN  /\ lastCall' = [op |-> "add_movie", user_id |-> user_id, imdb_id |-> imdb,
                            status |-> status, exc |-> exc, ret |-> r.ret, raised |-> r.raised]
            /\ UNCHANGED <<users, userSeq, movies, movieSeq, clock, created, sess,
                           OMDB_API_KEY, ui, calls>>

FailGetAllMovies ==
    \E user_id \in UserIds, exc \in EngineFaults :
        LET r == get_all_movies_except(exc)
        IN  /\ lastCall' = [op |-> "get_all_movies", user_id |-> user_id,
                            exc |-> exc, ret |-> r.ret, raised |-> r.raised]
            /\ UNCHANGED <<users, userSeq, movies, movieSeq, clock, created, sess,
                           OMDB_API_KEY, ui, calls>>

FailDeleteAll ==
    \E user_id \in UserIds, exc \in EngineFaults :
        LET r == delete_all_movies_for_user_except(exc)
        IN  /\ lastCall' = [op |-> "delete_all_movies_for_user", user_id |-> user_id,
                            exc |-> exc, ret |-> r.ret, raised |-> r.raised]
            /\ UNCHANGED <<users, userSeq, movies, movieSeq, clock, created, sess,
                           OMDB_API_KEY, ui, calls>>

(* The persistence layer under any sequence of calls. *)
NextAccounts ==
    \/ CallAddUser
    \/ CallFindUser

SpecAccounts == Init /\ [][NextAccounts]_vars

NextDb ==
    \/ CallAddMovie
    \/ CallGetAllMovies
    \/ CallDeleteAll
    \/ CallUpdateStatus
    \/ CallUpdateRating
    \/ CallDeleteMovie

SpecDb == Init /\ [][NextDb]_vars

(* Two processes in add_movie at the same time.  Each call opens its own   *)
(* connection, runs one INSERT OR IGNORE and commits.  The engine lets one *)
(* connection write at a time: the statement takes the write lock and the  *)
(* commit gives it back; a statement that finds the lock taken waits, and  *)
(* raises sqlite3.OperationalError (database is locked) when the wait      *)
(* runs out.                                                               *)

(* The account the racing processes add for. *)
RaceUserIds == {1}

(* The connections that hold the write lock. *)
WriteLockHolders == {q \in Procs : calls[q].pc = "written"}

(* add_movie entered by process p: the arguments are fixed, nothing is     *)
(* written yet.  `fresh` and `with` are history: whether the pair had no   *)
(* row when the call started, and which calls were in flight with it.      *)
RaceInvoke(p) ==
    /\ calls[p].pc \in {"idle", "returned"}
    /\ \E user_id \in RaceUserIds, imdb \in ImdbIds, status \in Statuses :
        LET inflight == {q \in Procs : calls[q].pc \in {"called", "written"}}
        IN  calls' = [q \in Procs |->
                        IF q = p
                        THEN [pc |-> "called", user_id |-> user_id, imdb_id |-> imdb,
                              status |-> status, now |-> 0, ret |-> FALSE,
                              fresh |-> ~\E m \in movies : m.user_id = user_id /\ m.imdb_id = imdb,
                              with |-> inflight]
                        ELSE IF q \in inflight
                        THEN [calls[q] EXCEPT !.with = @ \cup {p}]
                        ELSE calls[q]]
    /\ UNCHANGED <<users, userSeq, movies, movieSeq, clock, created, lastCall, sess,
                   OMDB_API_KEY, ui>>

(* cursor.execute in process p: the clock is read, the lock is taken and   *)
(* the statement runs against the committed table; rowcount is known.      *)
RaceStatement(p) ==
    /\ calls[p].pc = "called"
    /\ WriteLockHolders = {}
    /\ \E now \in Now :
        LET c == calls[p]
            r == add_movie(c.user_id, MovieData(c.imdb_id), c.status, now)
        IN  /\ r.ret => movieSeq < MaxMovieId
            /\ clock' = now
            /\ calls' = [calls EXCEPT ![p].pc = "written", ![p].now = now, ![p].ret = r.ret]
    /\ UNCHANGED <<users, userSeq, movies, movieSeq, created, lastCall, sess,
                   OMDB_API_KEY, ui>>

(* conn.commit in process p: its row, if any, reaches the table, the lock  *)
(* is given back and the call returns rowcount > 0.                        *)
RaceCommit(p) ==
    /\ calls[p].pc = "written"
    /\ LET c == calls[p]
           r == add_movie(c.user_id, MovieData(c.imdb_id), c.status, c.now)
       IN  /\ movies' = r.movies
           /\ movieSeq' = r.seq
           /\ calls' = [calls EXCEPT ![p].pc = "returned"]
    /\ UNCHANGED <<users, userSeq, clock, created, lastCall, sess, OMDB_API_KEY, ui>>

(* cursor.execute in process p gives up waiting for the lock another       *)
(* connection holds: the call catches the error and returns False.         *)
RaceBusy(p) ==
    /\ calls[p].pc = "called"
    /\ WriteLockHolders # {}
    /\ calls' = [calls EXCEPT ![p].pc = "returned",
                              ![p].ret = add_movie_except("sqlite3.OperationalError").ret]
    /\ UNCHANGED <<users, userSeq, movies, movieSeq, clock, created, lastCall, sess,
                   OMDB_API_KEY, ui>>

NextRace ==
    \E p \in Procs :
        \/ RaceInvoke(p)
        \/ RaceStatement(p)
        \/ RaceCommit(p)
        \/ RaceBusy(p)

SpecRace == Init /\ [][NextRace]_vars

(* The persistence layer when the engine may fail during a call. *)
NextFaults ==
    \/ CallAddMovie
    \/ CallDeleteAll
    \/ FailAddUser
    \/ FailFindUser
    \/ FailAddMovie
    \/ FailGetAllMovies
    \/ FailDeleteAll

SpecFaults == Init /\ [][NextFaults]_vars

(* The lookup client next to a store that entries are added to. *)
NextLookup ==
    \/ ImportApiClient
    \/ CallGetMovieDetails
    \/ CallAddMovie

SpecLookup == Init /\ [][NextLookup]_vars

---------------------------------------------------------------------------
(* app.py.  A browser session runs the script once per interaction; the    *)
(* statements a run issues to db.py are separate steps, each committed on  *)
(* its own, so the store passes through the states between them.           *)

(* What the model's user types into the account forms: names and passwords *)
(* that pass the checks of create_account.                                 *)
FormPasswords == {1}
FormSalts == {0}

(* A rating cell that accepts one value above the range. *)
config_watched_UserRating_wide ==
    [min_value |-> MinRating, max_value |-> MaxRating + 1, step |-> 1]

(* config_watched["User Rating"]: the NumberColumn of the rating cell.     *)
config_watched_UserRating ==
    [min_value |-> MinRating, max_value |-> MaxRating, step |-> 1]

(* The values the rating cell accepts. *)
RatingCellValues ==
    LET c == config_watched_UserRating
    IN  {v \in c.min_value .. c.max_value : (v - c.min_value) % c.step = 0}

(* The values the model's user leaves in a rating cell: cleared, or the    *)
(* highest value the cell accepts.                                         *)
RatingEdits ==
    {None} \cup {v \in RatingCellValues : \A w \in RatingCellValues : w <= v}

(* app.authenticate *)
authenticate(username, password) ==
    LET found == find_user_by_username(username)
        user_id == found[1]
        hashed_password == found[2]
    IN  IF user_id # None /\ user_id # 0 /\ hashed_password # None
        THEN IF bcrypt_verify(password, hashed_password)
             THEN <<user_id, username>>
             ELSE <<None, None>>
        ELSE <<None, None>>

(* The checkboxes of one row of the "Want to Watch" editor. *)
WantFlags == [Delete : BOOLEAN, MarkWatched : BOOLEAN]

(* One entry of edited_rows of the "Watched" editor; HasRating says        *)
(* whether "User Rating" is among the changes, and without it there is no  *)
(* rating to read.                                                         *)
WatchedChanges ==
    {c \in [Delete : BOOLEAN, MarkUnwatched : BOOLEAN, HasRating : BOOLEAN,
            UserRating : RatingEdits] : ~c.HasRating => c.UserRating = None}

(* "Want to Watch" confirm handler, one row: delete before move.  The      *)
(* action keeps the row's checkboxes as history.                           *)
WantRowAction(movie_db_id, row) ==
    IF row.Delete
    THEN [id |-> movie_db_id, act |-> "delete", val |-> None, changes |-> row]
    ELSE IF row.MarkWatched
    THEN [id |-> movie_db_id, act |-> "watched", val |-> None, changes |-> row]
    ELSE [id |-> movie_db_id, act |-> "none", val |-> None, changes |-> row]

(* A "Watched" confirm handler that looks at the rating before the move. *)
WatchedRowAction_rate_first(movie_db_id, changes) ==
    IF changes.Delete
    THEN [id |-> movie_db_id, act |-> "delete", val |-> None, changes |-> changes]
    ELSE IF changes.HasRating
    THEN [id |-> movie_db_id, act |-> "rate", val |-> changes.UserRating, changes |-> changes]
    ELSE IF changes.MarkUnwatched
    THEN [id |-> movie_db_id, act |-> "unwatched", val |-> None, changes |-> changes]
    ELSE [id |-> movie_db_id, act |-> "none", val |-> None, changes |-> changes]

(* "Watched" confirm handler, one edited row: delete > move > rate.  The   *)
(* action keeps the row's changes as history.                              *)
WatchedRowAction(movie_db_id, changes) ==
    IF changes.Delete
    THEN [id |-> movie_db_id, act |-> "delete", val |-> None, changes |-> changes]
    ELSE IF changes.MarkUnwatched
    THEN [id |-> movie_db_id, act |-> "unwatched", val |-> None, changes |-> changes]
    ELSE IF changes.HasRating
    THEN [id |-> movie_db_id, act |-> "rate", val |-> changes.UserRating, changes |-> changes]
    ELSE [id |-> movie_db_id, act |-> "none", val |-> None, changes |-> changes]

(* A move out of the "Watched" list that stores a label of its own. *)
MoveTarget_unwatched(act) == IF act = "watched" THEN Watched ELSE "Unwatched"

(* The status a move stores. *)
MoveTarget(act) == IF act = "watched" THEN Watched ELSE WantToWatch

(* A move that leaves the rating clear out. *)
NoClearAfterMove(movie_db_id) ==
    [ret |-> \E m \in movies : m.id = movie_db_id, movies |-> movies]

(* The second statement of a move: db.update_movie_rating(movie_db_id, None) *)
ClearRatingAfterMove(movie_db_id) == update_movie_rating(movie_db_id, None)

IsAct(a) == a.act # "none"

Idle(s) == sess[s].queue = <<>> /\ ui[s].pc = "idle"

LoggedIn(s) == sess[s].user_id # None

(* The rows of the listing with one status, in listing order. *)
WithStatus(rows, status) == SelectSeq(rows, LAMBDA m : m.status = status)

(* edited_rows: up to MaxEdits distinct row positions, in the order of     *)
(* their first edit, each with its changes.                                *)
EditedRows(n) ==
    UNION {{e \in [1 .. k -> (1 .. n) \X WatchedChanges] :
                \A i, j \in 1 .. k : i # j => e[i][1] # e[j][1]} : k \in 0 .. MaxEdits}

(* create_account_form *)
AppCreateAccount(s) ==
    /\ ~LoggedIn(s)
    /\ \E username \in Usernames, password \in FormPasswords, salt \in FormSalts :
        LET r == add_user(username, password, salt)
        IN  /\ r.ret # None
            /\ users' = r.users
            /\ userSeq' = r.seq
            /\ created' = (username :> <<r.ret, bcrypt_hash(password, salt)>>) @@ created
    /\ UNCHANGED <<movies, movieSeq, clock, lastCall, sess, OMDB_API_KEY, ui, calls>>

(* login_form *)
AppLogin(s) ==
    /\ ~LoggedIn(s)
    /\ \E username \in Usernames, password \in Passwords :
        LET uid == authenticate(username, password)[1]
        IN  /\ uid # None
            /\ sess' = [sess EXCEPT ![s].user_id = uid]
    /\ UNCHANGED <<users, userSeq, movies, movieSeq, clock, created, lastCall, OMDB_API_KEY, ui, calls>>

(* logout: the logged-in view and its widgets leave the page *)
AppLogout(s) ==
    /\ LoggedIn(s)
    /\ Idle(s)
    /\ sess' = [sess EXCEPT ![s].user_id = None]
    /\ ui' = [ui EXCEPT ![s] = InitUi]
    /\ UNCHANGED <<users, userSeq, movies, movieSeq, clock, created, lastCall, OMDB_API_KEY, calls>>

(* add_movie_form, for a title the lookup matched *)
AppAddMovie(s) ==
    /\ LoggedIn(s)
    /\ Idle(s)
    /\ \E imdb \in ImdbIds, status \in Statuses, now \in Now :
        LET r == add_movie(sess[s].user_id, MovieData(imdb), status, now)
        IN  /\ r.ret => movieSeq < MaxMovieId
            /\ movies' = r.movies
            /\ movieSeq' = r.seq
            /\ clock' = now
    /\ UNCHANGED <<users, userSeq, created, lastCall, sess, OMDB_API_KEY, ui, calls>>

(* "Confirm Selections" of the "Want to Watch" list: the run reads the     *)
(* listing and walks the rows of the editor in listing order.              *)
AppConfirmWant(s) ==
    /\ LoggedIn(s)
    /\ Idle(s)
    /\ \E rows \in get_all_movies(sess[s].user_id) :
        LET df_want_to_watch == WithStatus(rows, WantToWatch)
            n == Len(df_want_to_watch)
        IN  \E edited \in [1 .. n -> WantFlags] :
                LET todo == SelectSeq([i \in 1 .. n |->
                                WantRowAction(df_want_to_watch[i].id, edited[i])], IsAct)
                IN  /\ todo # <<>>
                    /\ Len(todo) <= MaxEdits
                    /\ sess' = [sess EXCEPT ![s].queue = todo]
    /\ UNCHANGED <<users, userSeq, movies, movieSeq, clock, created, lastCall, OMDB_API_KEY, ui, calls>>

(* "Confirm Selections" of the "Watched" list: the run reads the listing   *)
(* and walks edited_rows, finding each row by its position in df_watched.  *)
AppConfirmWatched(s) ==
    /\ LoggedIn(s)
    /\ Idle(s)
    /\ \E rows \in get_all_movies(sess[s].user_id) :
        LET df_watched == WithStatus(rows, Watched)
        IN  \E edited_rows \in EditedRows(Len(df_watched)) :
                LET todo == SelectSeq([i \in 1 .. Len(edited_rows) |->
                                WatchedRowAction(df_watched[edited_rows[i][1]].id,
                                                 edited_rows[i][2])], IsAct)
                IN  /\ todo # <<>>
                    /\ sess' = [sess EXCEPT ![s].queue = todo]
    /\ UNCHANGED <<users, userSeq, movies, movieSeq, clock, created, lastCall, OMDB_API_KEY, ui, calls>>

(* db.delete_movie_by_db_id for a row marked Delete *)
AppDeleteRow(s) ==
    /\ ~Idle(s)
    /\ Head(sess[s].queue).act = "delete"
    /\ movies' = delete_movie_by_db_id(Head(sess[s].queue).id).movies
    /\ sess' = [sess EXCEPT ![s].queue = Tail(@)]
    /\ UNCHANGED <<users, userSeq, movieSeq, clock, created, lastCall, OMDB_API_KEY, ui, calls>>

(* db.update_movie_status for a row marked for a move *)
AppMoveStatus(s) ==
    /\ ~Idle(s)
    /\ Head(sess[s].queue).act \in {"watched", "unwatched"}
    /\ ~sess[s].mid
    /\ LET h == Head(sess[s].queue)
           r == update_movie_status(h.id, MoveTarget(h.act))
       IN  /\ movies' = r.movies
           /\ sess' = IF r.ret THEN [sess EXCEPT ![s].mid = TRUE]
                      ELSE [sess EXCEPT ![s].queue = Tail(@)]
    /\ UNCHANGED <<users, userSeq, movieSeq, clock, created, lastCall, OMDB_API_KEY, ui, calls>>

(* the rating clear that follows a successful status update *)
AppMoveClear(s) ==
    /\ ~Idle(s)
    /\ sess[s].mid
    /\ movies' = ClearRatingAfterMove(Head(sess[s].queue).id).movies
    /\ sess' = [sess EXCEPT ![s].queue = Tail(@), ![s].mid = FALSE]
    /\ UNCHANGED <<users, userSeq, movieSeq, clock, created, lastCall, OMDB_API_KEY, ui, calls>>

(* db.update_movie_rating for a row whose rating cell was edited *)
AppRateRow(s) ==
    /\ ~Idle(s)
    /\ Head(sess[s].queue).act = "rate"
    /\ movies' = update_movie_rating(Head(sess[s].queue).id, Head(sess[s].queue).val).movies
    /\ sess' = [sess EXCEPT ![s].queue = Tail(@)]
    /\ UNCHANGED <<users, userSeq, movieSeq, clock, created, lastCall, OMDB_API_KEY, ui, calls>>

Next ==
    \E s \in Sessions :
        \/ AppCreateAccount(s)
        \/ AppLogin(s)
        \/ AppLogout(s)
        \/ AppAddMovie(s)
        \/ AppConfirmWant(s)
        \/ AppConfirmWatched(s)
        \/ AppDeleteRow(s)
        \/ AppMoveStatus(s)
        \/ AppMoveClear(s)
        \/ AppRateRow(s)

Spec == Init /\ [][Next]_vars

(* The list editors of one session while other sessions of the            *)
(* application, logged in to any account, use the same database.  The      *)
(* other sessions are seen through what they write.                        *)

(* another session's add-movie form adds an entry to its account; its     *)
(* clock reading is the one the last add had, so entries tie and a listing *)
(* may give them in any order                                              *)
OtherSessionAdd ==
    /\ \E u \in users, imdb \in ImdbIds, status \in Statuses :
        LET r == add_movie(u.id, MovieData(imdb), status, clock)
        IN  /\ r.ret
            /\ movieSeq < MaxMovieId
            /\ movies' = r.movies
            /\ movieSeq' = r.seq
    /\ UNCHANGED <<users, userSeq, clock, created, lastCall, sess, OMDB_API_KEY, ui, calls>>

(* another session's confirm handler deletes an entry of its account *)
OtherSessionDelete ==
    /\ \E m \in movies :
        LET r == delete_movie_by_db_id(m.id)
        IN  movies' = r.movies
    /\ UNCHANGED <<users, userSeq, movieSeq, clock, created, lastCall, sess, OMDB_API_KEY,
                   ui, calls>>

NextShared ==
    \/ \E s \in Sessions :
        \/ AppCreateAccount(s)
        \/ AppLogin(s)
        \/ AppConfirmWant(s)
        \/ AppConfirmWatched(s)
        \/ AppDeleteRow(s)
        \/ AppMoveStatus(s)
        \/ AppMoveClear(s)
        \/ AppRateRow(s)
    \/ OtherSessionAdd
    \/ OtherSessionDelete

SpecShared == Init /\ [][NextShared]_vars

---------------------------------------------------------------------------
(* app.py, the account forms with what is typed into them.  A name is the  *)
(* sequence of its characters and a password the sequence of its           *)
(* characters, so that the checks of create_account can look into them.    *)

(* The characters of a typed name: a letter, a space, a tab. *)
NameChars == {"a", " ", "\t"}

(* Names of up to two characters, the empty name included. *)
TypedNames == {<<>>} \cup {<<c>> : c \in NameChars}
                    \cup {<<c, d>> : c \in NameChars, d \in NameChars}

(* Passwords typed: none, three characters, four characters. *)
TypedPasswords == {<<>>, <<"p", "w", "d">>, <<"p", "w", "d", "1">>}

(* The number the model's bcrypt hashes for a typed password. *)
PasswordOf(text) == Len(text)

(* app.create_account: whether the typed name and password reach           *)
(* db.add_user: `not username or not password or len(password) < 4 or      *)
(* " " in username` sends them back.                                       *)
create_account(username, password) ==
    ~(\/ username = <<>>
      \/ password = <<>>
      \/ Len(password) < 4
      \/ \E i \in DOMAIN username : username[i] = " ")

(* create_account_form submitted with a typed name and password *)
AppSubmitCreateAccount(s) ==
    /\ ~LoggedIn(s)
    /\ \E create_user \in TypedNames, create_pass \in TypedPasswords, salt \in FormSalts :
        /\ create_account(create_user, create_pass)
        /\ LET r == add_user(create_user, PasswordOf(create_pass), salt)
           IN  /\ r.ret # None
               /\ users' = r.users
               /\ userSeq' = r.seq
               /\ created' = (create_user :> <<r.ret, bcrypt_hash(PasswordOf(create_pass), salt)>>)
                                @@ created
    /\ UNCHANGED <<movies, movieSeq, clock, lastCall, sess, OMDB_API_KEY, ui, calls>>

(* login_form submitted with a typed name and password *)
AppSubmitLogin(s) ==
    /\ ~LoggedIn(s)
    /\ \E login_user \in TypedNames, login_pass \in TypedPasswords :
        LET uid == authenticate(login_user, PasswordOf(login_pass))[1]
        IN  /\ uid # None
            /\ sess' = [sess EXCEPT ![s].user_id = uid]
    /\ UNCHANGED <<users, userSeq, movies, movieSeq, clock, created, lastCall,
                   OMDB_API_KEY, ui, calls>>

NextSignup ==
    \E s \in Sessions :
        \/ AppSubmitCreateAccount(s)
        \/ AppSubmitLogin(s)
        \/ AppLogout(s)

SpecSignup == Init /\ [][NextSignup]_vars

---------------------------------------------------------------------------
(* app.py, the add-movie form and the clear-all section.  The run of the   *)
(* form is followed call by call: the lookup, the add, the listing the     *)
(* page is then drawn from.                                                *)

(* What the model's user types as a title: nothing, or a title. *)
FormTitles == {""} \cup Titles

(* "Fetch & Add Movie" pressed: `if movie_title:` *)
AppSubmitAddForm(s) ==
    /\ LoggedIn(s)
    /\ Idle(s)
    /\ \E movie_title \in FormTitles, movie_status \in Statuses :
        ui' = [ui EXCEPT ![s].pc = IF movie_title # "" THEN "lookup" ELSE "idle",
                         ![s].title = movie_title,
                         ![s].status = movie_status,
                         ![s].api_data = <<>>,
                         ![s].lookups = 0,
                         ![s].adds = 0,
                         ![s].prior = FALSE,
                         ![s].added = FALSE,
                         ![s].listed = <<>>,
                         ![s].confirm_shown = FALSE,
                         ![s].confirm = FALSE,
                         ![s].event = "add_form",
                         ![s].confirmed = FALSE,
                         ![s].deleted = FALSE]
    /\ UNCHANGED <<users, userSeq, movies, movieSeq, clock, created, lastCall, sess,
                   OMDB_API_KEY, calls>>

(* The form without `if api_data:`, adding whatever the lookup returned. *)
AppFormLookup_unguarded(s) ==
    /\ ui[s].pc = "lookup"
    /\ \E response \in Provider(RequestParams(ui[s].title)) :
        LET api_data == get_movie_details(ui[s].title, response).ret
        IN  ui' = [ui EXCEPT ![s].pc = "add",
                             ![s].api_data = api_data,
                             ![s].lookups = @ + 1]
    /\ UNCHANGED <<users, userSeq, movies, movieSeq, clock, created, lastCall, sess,
                   OMDB_API_KEY, calls>>

(* api_data = api_client.get_movie_details(movie_title); `if api_data:` *)
AppFormLookup(s) ==
    /\ ui[s].pc = "lookup"
    /\ \E response \in Provider(RequestParams(ui[s].title)) :
        LET api_data == get_movie_details(ui[s].title, response).ret
        IN  ui' = [ui EXCEPT ![s].pc = IF api_data # <<>> THEN "add" ELSE "idle",
                             ![s].api_data = api_data,
                             ![s].lookups = @ + 1]
    /\ UNCHANGED <<users, userSeq, movies, movieSeq, clock, created, lastCall, sess,
                   OMDB_API_KEY, calls>>

(* db.add_movie(st.session_state.user_id, api_data, movie_status) *)
AppFormAdd(s) ==
    /\ ui[s].pc = "add"
    /\ \E now \in Now :
        LET api_data == ui[s].api_data[1]
            r == add_movie(sess[s].user_id, api_data, ui[s].status, now)
        IN  /\ r.ret => movieSeq < MaxMovieId
            /\ movies' = r.movies
            /\ movieSeq' = r.seq
            /\ clock' = now
            /\ ui' = [ui EXCEPT ![s].pc = "listing",
                                 ![s].adds = @ + 1,
                                 ![s].prior = \E m \in movies :
                                                /\ m.user_id = sess[s].user_id
                                                /\ m.imdb_id = api_data.imdbID,
                                 ![s].added = r.ret]
    /\ UNCHANGED <<users, userSeq, created, lastCall, sess, OMDB_API_KEY, calls>>

(* all_movie_data_from_db = db.get_all_movies(st.session_state.user_id) *)
AppFormListing(s) ==
    /\ ui[s].pc = "listing"
    /\ \E rows \in get_all_movies(sess[s].user_id) :
        ui' = [ui EXCEPT ![s].pc = "idle", ![s].listed = rows]
    /\ UNCHANGED <<users, userSeq, movies, movieSeq, clock, created, lastCall, sess,
                   OMDB_API_KEY, calls>>

(* A clear-all section whose button deletes without the final checkbox. *)
ClearSection_unconfirmed(w, event, rows) ==
    LET show == IF event = "toggle_show" THEN ~w.show ELSE w.show
        button == event = "click_clear"
    IN  IF rows = <<>> \/ ~show
        THEN [show |-> FALSE, confirm_shown |-> FALSE, confirm |-> FALSE,
              confirmed |-> FALSE, deleted |-> FALSE]
        ELSE IF button
        THEN [show |-> FALSE, confirm_shown |-> FALSE, confirm |-> FALSE,
              confirmed |-> FALSE, deleted |-> TRUE]
        ELSE [show |-> TRUE, confirm_shown |-> FALSE, confirm |-> FALSE,
              confirmed |-> FALSE, deleted |-> FALSE]

(* One script run over the "Danger Zone" section, for the widget values w  *)
(* of the page, the event that started the run and the listing rows.  A    *)
(* button is True only in the run its click started; a checkbox gives the  *)
(* value the page holds for it, False when the last run did not draw it;   *)
(* a widget a run does not reach is dropped from the page with its value.  *)
(* deleted tells whether the run calls db.delete_all_movies_for_user, and  *)
(* confirmed what the final checkbox gave in a run the button started.     *)
ClearSection(w, event, rows) ==
    LET show == IF event = "toggle_show" THEN ~w.show ELSE w.show
        button == event = "click_clear"
        confirm == w.confirm_shown /\ (IF event = "tick_confirm" THEN ~w.confirm ELSE w.confirm)
    IN  IF rows = <<>> \/ ~show                      \* `if not df_all.empty:`, first checkbox
        THEN [show |-> FALSE, confirm_shown |-> FALSE, confirm |-> FALSE,
              confirmed |-> FALSE, deleted |-> FALSE]
        ELSE IF button
        THEN IF confirm                              \* delete, then st.rerun()
             THEN [show |-> FALSE, confirm_shown |-> FALSE, confirm |-> FALSE,
                   confirmed |-> TRUE, deleted |-> TRUE]
             ELSE [show |-> TRUE, confirm_shown |-> TRUE, confirm |-> FALSE,
                   confirmed |-> FALSE, deleted |-> FALSE]
        ELSE [show |-> TRUE, confirm_shown |-> FALSE, confirm |-> FALSE,
              confirmed |-> FALSE, deleted |-> FALSE]

(* The user toggles "Show Clear All Movies Option", presses the clear      *)
(* button, or ticks the final checkbox; each starts a script run.          *)
AppClearSection(s) ==
    /\ LoggedIn(s)
    /\ Idle(s)
    /\ \E event \in {"toggle_show", "click_clear", "tick_confirm"} :
        \E rows \in get_all_movies(sess[s].user_id) :
            LET r == ClearSection(ui[s], event, rows)
            IN  /\ event = "toggle_show" => rows # <<>>
                /\ event = "click_clear" => ui[s].show
                /\ event = "tick_confirm" => ui[s].confirm_shown
                /\ movies' = IF r.deleted
                             THEN delete_all_movies_for_user(sess[s].user_id).movies
                             ELSE movies
                /\ ui' = [ui EXCEPT ![s].show = r.show,
                                     ![s].confirm_shown = r.confirm_shown,
                                     ![s].confirm = r.confirm,
                                     ![s].event = event,
                                     ![s].confirmed = r.confirmed,
                                     ![s].deleted = r.deleted]
    /\ UNCHANGED <<users, userSeq, movieSeq, clock, created, lastCall, sess, OMDB_API_KEY, calls>>

NextForms ==
    \E s \in Sessions :
        \/ AppCreateAccount(s)
        \/ AppLogin(s)
        \/ AppLogout(s)
        \/ AppSubmitAddForm(s)
        \/ AppFormLookup(s)
        \/ AppFormAdd(s)
        \/ AppFormListing(s)
        \/ AppClearSection(s)

SpecForms == Init /\ [][NextForms]_vars

---------------------------------------------------------------------------
(* Properties of the persistence layer, under SpecDb and SpecAccounts.     *)
(* There every step is one call, and lastCall' is the call of the step.    *)

RowsFor(table, user_id, imdb_id) ==
    {m \in table : m.user_id = user_id /\ m.imdb_id = imdb_id}

RowsNotOf(table, user_id) == {m \in table : m.user_id # user_id}

(* C1: an add_movie for a pair the account does not hold signals True and  *)
(* leaves exactly one row for the pair, with the status given; an          *)
(* add_movie that directly follows a successful add_movie for the same     *)
(* (account, external identifier) signals False and leaves the table as it *)
(* was, so that the one row of the pair keeps the status of the first call *)
(* whatever the status of the second.                                      *)
C1_AddTwiceKeepsFirst ==
    [][lastCall'.op = "add_movie" /\ lastCall'.user_id # None =>
        LET u == lastCall'.user_id
            i == lastCall'.imdb_id
        IN  /\ RowsFor(movies, u, i) = {} =>
                /\ lastCall'.ret = TRUE
                /\ Cardinality(RowsFor(movies', u, i)) = 1
                /\ \A m \in RowsFor(movies', u, i) : m.status = lastCall'.status
            /\ (/\ lastCall.op = "add_movie"
                /\ lastCall.ret = TRUE
                /\ lastCall.user_id = u
                /\ lastCall.imdb_id = i) =>
                /\ lastCall'.ret = FALSE
                /\ movies' = movies
                /\ Cardinality(RowsFor(movies', u, i)) = 1
                /\ \A m \in RowsFor(movies', u, i) : m.status = lastCall.status
    ]_vars

(* A second add with another status was answered Duplicate and the row     *)
(* still has the other status.                                             *)
C1_Witness ==
    /\ lastCall.op = "add_movie"
    /\ lastCall.user_id # None
    /\ lastCall.ret = FALSE
    /\ \E m \in RowsFor(movies, lastCall.user_id, lastCall.imdb_id) :
            m.status # lastCall.status

(* C2: no two rows of the movies table have the same (user_id, imdb_id).   *)
C2_PairUnique ==
    \A m1, m2 \in movies :
        (m1.user_id = m2.user_id /\ m1.imdb_id = m2.imdb_id) => m1 = m2

(* A duplicate add was refused while the table holds two rows. *)
C2_Witness ==
    /\ Cardinality(movies) = 2
    /\ lastCall.op = "add_movie"
    /\ lastCall.user_id # None
    /\ lastCall.ret = FALSE

(* C3: an add_movie for account B and an identifier B does not hold        *)
(* signals True whatever the other accounts hold, and leaves the rows of   *)
(* every other account as they were.                                       *)
C3_DuplicatePerAccount ==
    [][(/\ lastCall'.op = "add_movie"
        /\ lastCall'.user_id # None
        /\ RowsFor(movies, lastCall'.user_id, lastCall'.imdb_id) = {}) =>
            /\ lastCall'.ret = TRUE
            /\ RowsNotOf(movies', lastCall'.user_id) = RowsNotOf(movies, lastCall'.user_id)
            /\ \E m \in movies' : m.user_id = lastCall'.user_id /\ m.imdb_id = lastCall'.imdb_id
    ]_vars

(* B's add succeeded while another account holds the same identifier with  *)
(* another status.                                                         *)
C3_Witness ==
    /\ lastCall.op = "add_movie"
    /\ lastCall.ret = TRUE
    /\ \E m \in movies :
        /\ m.user_id # lastCall.user_id
        /\ m.imdb_id = lastCall.imdb_id
        /\ m.status # lastCall.status

(* C4: every row get_all_movies(B) returns is a row of the table owned by  *)
(* B, and every row B owns is returned.                                    *)
C4_ListingIsolation ==
    lastCall.op = "get_all_movies" =>
        /\ \A k \in DOMAIN lastCall.ret :
            /\ lastCall.ret[k] \in movies
            /\ lastCall.ret[k].user_id = lastCall.user_id
        /\ \A m \in movies :
            m.user_id = lastCall.user_id => \E k \in DOMAIN lastCall.ret : lastCall.ret[k] = m

(* B's listing was returned while another account holds the same           *)
(* identifier.                                                             *)
C4_Witness ==
    /\ lastCall.op = "get_all_movies"
    /\ Len(lastCall.ret) = 1
    /\ \E m \in movies :
        /\ m.user_id # lastCall.user_id
        /\ m.imdb_id = lastCall.ret[1].imdb_id

(* C5: delete_all_movies_for_user(u) removes the rows of u and no other,   *)
(* returns how many rows of u there were, leaves the users table alone,    *)
(* and returns 0 when it directly follows a call for the same u.           *)
C5_DeleteAllFrame ==
    [][(lastCall'.op = "delete_all_movies_for_user" /\ lastCall'.user_id # None) =>
        LET u == lastCall'.user_id
        IN  /\ movies' = RowsNotOf(movies, u)
            /\ lastCall'.ret = Cardinality(movies) - Cardinality(movies')
            /\ lastCall'.ret = Cardinality({m \in movies : m.user_id = u})
            /\ users' = users
            /\ (lastCall.op = "delete_all_movies_for_user" /\ lastCall.user_id = u) =>
                    lastCall'.ret = 0
    ]_vars

(* A delete-all removed a row and a row of another account is still there. *)
C5_Witness ==
    /\ lastCall.op = "delete_all_movies_for_user"
    /\ lastCall.ret >= 1
    /\ \E m \in movies : m.user_id # lastCall.user_id

(* C6: no two rows of the users table have the same username; an add_user  *)
(* with a name that is taken returns None and leaves the table, ids and    *)
(* hashes included, as it was.                                             *)
C6_DuplicateNameRefused ==
    /\ [](\A u1, u2 \in users : u1.username = u2.username => u1 = u2)
    /\ [][(/\ lastCall'.op = "add_user"
           /\ \E u \in users : u.username = lastCall'.username) =>
                /\ lastCall'.ret = None
                /\ users' = users
                /\ userSeq' = userSeq
       ]_vars

(* A second creation under a taken name, with another password, was        *)
(* refused.                                                                *)
C6_Witness ==
    /\ lastCall.op = "add_user"
    /\ lastCall.ret = None
    /\ \E u \in users :
        /\ u.username = lastCall.username
        /\ ~bcrypt_verify(lastCall.password, u.hashed_password)

(* C7: find_user_by_username(name) returns the id add_user returned for    *)
(* that name and the hash stored then, and (None, None) for a name that    *)
(* was never created.                                                      *)
C7_FindReturnsCreated ==
    lastCall.op = "find_user_by_username" =>
        lastCall.ret = IF lastCall.username \in DOMAIN created
                       THEN created[lastCall.username]
                       ELSE <<None, None>>

(* The second of two accounts was found. *)
C7_Witness ==
    /\ lastCall.op = "find_user_by_username"
    /\ lastCall.ret[1] = 2
    /\ Cardinality(users) = 2

---------------------------------------------------------------------------
(* Properties of the application, under Spec. *)

(* C8: when a session has carried out "Move to 'Want to Watch'" for an     *)
(* entry (the status update and the rating clear that follows it), the     *)
(* entry, if it still exists, has no rating, whatever rating it had.       *)
C8_MoveToWantClearsRating ==
    [][\A s \in Sessions :
        (/\ sess[s].mid
         /\ Head(sess[s].queue).act = "unwatched"
         /\ sess'[s] # sess[s]) =>
            \A m \in movies' : m.id = Head(sess[s].queue).id => m.user_rating = None
    ]_vars

(* A rated entry has been set to "Want to Watch" by a move whose rating    *)
(* clear is about to run.                                                  *)
C8_Witness ==
    \E s \in Sessions :
        /\ sess[s].mid
        /\ Head(sess[s].queue).act = "unwatched"
        /\ \E m \in movies :
            /\ m.id = Head(sess[s].queue).id
            /\ m.status = WantToWatch
            /\ m.user_rating # None

(* C9: in every state of the store, an entry whose status is               *)
(* "Want to Watch" has no rating.                                          *)
C9_RatingOnlyWhenWatched ==
    \A m \in movies : m.status = WantToWatch => m.user_rating = None

(* C10: every stored rating is absent or an integer from 1 to 5. *)
C10_RatingInRange ==
    \A m \in movies : m.user_rating = None \/ m.user_rating \in MinRating .. MaxRating

(* An entry carries the highest rating the cell accepts. *)
C10_Witness ==
    \E m \in movies : m.user_rating = MaxRating

---------------------------------------------------------------------------
(* C11: in every state every entry's status is "Want to Watch" or          *)
(* "Watched": the add form and the moves of the two lists store no other   *)
(* value.                                                                  *)
C11_StatusEnumerated ==
    \A m \in movies : m.status \in {"Want to Watch", "Watched"}

(* A move has just set an entry to "Watched". *)
C11_Witness ==
    \E s \in Sessions :
        /\ sess[s].mid
        /\ Head(sess[s].queue).act = "watched"
        /\ \E m \in movies : m.id = Head(sess[s].queue).id /\ m.status = "Watched"

---------------------------------------------------------------------------
(* Properties of the lookup client, under SpecLookup. *)

(* The provider answered over a successful transport. *)
Answered(response) ==
    response.exc = "" /\ response.status_code \in 200 .. 299 /\ response.json # <<>>

(* C12: when the provider reports a title as unmatched over a successful   *)
(* transport, what get_movie_details returns differs from what it returns  *)
(* for the same title on any transport failure.                            *)
C12_NotFoundDistinctFromError ==
    (/\ lastCall.op = "get_movie_details"
     /\ Answered(lastCall.response)
     /\ lastCall.response.json[1].Response = "False") =>
        \A failure \in Provider(RequestParams(lastCall.title)) :
            ~Answered(failure) => lastCall.ret # get_movie_details(lastCall.title, failure).ret

(* C13: with no API key configured, get_movie_details returns None and     *)
(* issues no request.                                                      *)
C13_NoKeyNoRequest ==
    (lastCall.op = "get_movie_details" /\ lastCall.apikey = None) =>
        /\ lastCall.ret = <<>>
        /\ lastCall.sent = <<>>

(* C14: a call of get_movie_details issues at most one request, lets no    *)
(* exception out, returns None when the transport failed, and leaves both  *)
(* tables as they were.                                                    *)
C14_OneRequestNoRetry ==
    [][lastCall'.op = "get_movie_details" =>
        /\ Len(lastCall'.sent) <= 1
        /\ ~lastCall'.raised
        /\ ~Answered(lastCall'.response) => lastCall'.ret = <<>>
        /\ movies' = movies
        /\ users' = users
    ]_vars

(* A lookup met a server error while the store holds an entry. *)
C14_Witness ==
    /\ lastCall.op = "get_movie_details"
    /\ lastCall.response.status_code = 500
    /\ lastCall.ret = <<>>
    /\ movies # {}

---------------------------------------------------------------------------
(* Further properties of the persistence layer, under SpecDb. *)

(* C15: get_all_movies lists the entries of an account latest first: of    *)
(* two entries, the one the later add_movie call created (the one with the *)
(* higher id) comes first.                                                 *)
C15_LaterAddListedFirst ==
    lastCall.op = "get_all_movies" =>
        \A i, j \in DOMAIN lastCall.ret :
            i < j => lastCall.ret[i].id > lastCall.ret[j].id

(* C16: add_movie, get_all_movies and delete_all_movies_for_user called    *)
(* with user_id None leave the tables as they were and return False, the   *)
(* empty list and 0.                                                       *)
C16_NoneAccountRefused ==
    [][(/\ lastCall'.op \in {"add_movie", "get_all_movies", "delete_all_movies_for_user"}
        /\ lastCall'.user_id = None) =>
            /\ movies' = movies
            /\ movieSeq' = movieSeq
            /\ users' = users
            /\ lastCall'.op = "add_movie" => lastCall'.ret = FALSE
            /\ lastCall'.op = "get_all_movies" => lastCall'.ret = <<>>
            /\ lastCall'.op = "delete_all_movies_for_user" => lastCall'.ret = 0
    ]_vars

(* An add without an account was refused while the store holds an entry    *)
(* for the same identifier.                                                *)
C16_Witness ==
    /\ lastCall.op = "add_movie"
    /\ lastCall.user_id = None
    /\ lastCall.ret = FALSE
    /\ \E m \in movies : m.imdb_id = lastCall.imdb_id

(* C17: update_movie_status, update_movie_rating and delete_movie_by_db_id *)
(* for an id no row has return False and leave both tables as they were;   *)
(* for the id of a row they return True, leave every other row as it was,  *)
(* and change of that row only the status, only the rating, or remove it.  *)
C17_NotFoundOrOnlyThatEntry ==
    [][lastCall'.op \in {"update_movie_status", "update_movie_rating", "delete_movie_by_db_id"} =>
        LET id == lastCall'.movie_db_id
            exists == \E m \in movies : m.id = id
        IN  /\ lastCall'.ret = exists
            /\ users' = users
            /\ ~exists => movies' = movies
            /\ {m \in movies' : m.id # id} = {m \in movies : m.id # id}
            /\ exists =>
                LET old == CHOOSE m \in movies : m.id = id
                IN  /\ lastCall'.op = "update_movie_status" =>
                            {m \in movies' : m.id = id} = {[old EXCEPT !.status = lastCall'.status]}
                    /\ lastCall'.op = "update_movie_rating" =>
                            {m \in movies' : m.id = id} = {[old EXCEPT !.user_rating = lastCall'.rating]}
                    /\ lastCall'.op = "delete_movie_by_db_id" =>
                            {m \in movies' : m.id = id} = {}
    ]_vars

(* A delete addressed an entry that had been created and deleted before,   *)
(* and was answered False, while another entry exists.                     *)
C17_Witness ==
    /\ lastCall.op = "delete_movie_by_db_id"
    /\ lastCall.ret = FALSE
    /\ lastCall.movie_db_id <= movieSeq
    /\ movies # {}

---------------------------------------------------------------------------
(* Properties of the persistence layer under engine failures, under        *)
(* SpecFaults.                                                             *)

---------------------------------------------------------------------------
(* Properties of the add-movie form and the clear-all section, under       *)
(* SpecForms.                                                              *)

(* C19: in a run of the add-movie form, add_movie is called only after     *)
(* get_movie_details has returned a record in that run; the run calls      *)
(* get_movie_details at most once, and not at all for an empty title; and  *)
(* when the account held no entry for the record's identifier before the   *)
(* add, the listing read after it holds exactly one entry with that        *)
(* identifier, and it carries the record's title.                          *)
C19_AddAfterLookup ==
    \A s \in Sessions :
        LET f == ui[s]
        IN  /\ f.lookups <= 1
            /\ f.title = "" => f.lookups = 0 /\ f.adds = 0
            /\ f.pc = "add" \/ f.adds > 0 =>
                    /\ f.lookups = 1
                    /\ f.api_data # <<>>
                    /\ f.api_data[1].Response = "True"
                    /\ f.api_data[1].Title = f.title
            /\ f.adds <= 1
            /\ (f.pc = "idle" /\ f.adds = 1 /\ ~f.prior) =>
                    /\ f.added
                    /\ Cardinality({k \in DOMAIN f.listed :
                            f.listed[k].imdb_id = f.api_data[1].imdbID}) = 1
                    /\ \A k \in DOMAIN f.listed :
                            f.listed[k].imdb_id = f.api_data[1].imdbID =>
                                /\ f.listed[k].title = f.api_data[1].Title
                                /\ f.listed[k].user_id = sess[s].user_id
                                /\ f.listed[k].status = f.status

(* A form run added an entry to an account while another account holds    *)
(* the same identifier, and the listing was read.                          *)
C19_Witness ==
    \E s \in Sessions :
        /\ ui[s].pc = "idle"
        /\ ui[s].adds = 1
        /\ ui[s].added
        /\ Len(ui[s].listed) = 1
        /\ \E m \in movies :
            /\ m.user_id # sess[s].user_id
            /\ m.imdb_id = ui[s].api_data[1].imdbID

(* C20: the clear-all section calls delete_all_movies_for_user only in a   *)
(* run in which the final confirmation checkbox gave True; no step of the  *)
(* page removes an entry otherwise.                                        *)
C20_ClearNeedsConfirmation ==
    [][/\ \A s \in Sessions : ui'[s].deleted => ui'[s].confirmed
       /\ (\E m \in movies : m \notin movies') =>
            \E s \in Sessions :
                /\ ui'[s].event = "click_clear"
                /\ ui'[s].deleted
                /\ ui'[s].confirmed
    ]_vars

(* The clear button was pressed for an account that holds entries, the     *)
(* final checkbox was not checked, and the entries are still there.        *)
C20_Witness ==
    \E s \in Sessions :
        /\ ui[s].event = "click_clear"
        /\ ~ui[s].confirmed
        /\ ~ui[s].deleted
        /\ ui[s].confirm_shown
        /\ \E m \in movies : m.user_id = sess[s].user_id

---------------------------------------------------------------------------
(* Properties of the account forms, under SpecSignup. *)

(* The whitespace characters among NameChars. *)
Whitespace == {" ", "\t"}

(* C21: in every state the name of every account is non-empty and holds    *)
(* no whitespace character.                                                *)
C21_NamesWithoutWhitespace ==
    \A u \in users :
        /\ u.username # <<>>
        /\ \A i \in DOMAIN u.username : u.username[i] \notin Whitespace

---------------------------------------------------------------------------
(* Properties of concurrent calls, under SpecRace. *)

(* Two returned calls that were in flight together, for one pair that had  *)
(* no row when either started.                                             *)
RacedPair(p, q) ==
    /\ p # q
    /\ calls[p].pc = "returned" /\ calls[q].pc = "returned"
    /\ q \in calls[p].with /\ p \in calls[q].with
    /\ calls[p].user_id = calls[q].user_id
    /\ calls[p].imdb_id = calls[q].imdb_id
    /\ calls[p].fresh /\ calls[q].fresh

(* C22: when two add_movie calls for the same new (user_id, imdb_id) ran   *)
(* concurrently and both have returned, exactly one of them returned True, *)
(* and the table holds exactly one row for the pair, with the status that  *)
(* call was given.                                                         *)
C22_OneWinner ==
    \A p \in Procs, q \in Procs :
        RacedPair(p, q) =>
            /\ calls[p].ret # calls[q].ret
            /\ LET rows == RowsFor(movies, calls[p].user_id, calls[p].imdb_id)
                   won == IF calls[p].ret THEN calls[p] ELSE calls[q]
               IN  /\ Cardinality(rows) = 1
                   /\ \A m \in rows : m.status = won.status

(* Two raced calls with different statuses have both returned. *)
C22_Witness ==
    \E p \in Procs, q \in Procs :
        /\ RacedPair(p, q)
        /\ calls[p].status # calls[q].status

---------------------------------------------------------------------------
(* Properties of the confirm handlers' priority, under Spec. *)

(* Whether the changes of a row ask for a move to the other list. *)
AsksMove(changes) ==
    IF "MarkWatched" \in DOMAIN changes THEN changes.MarkWatched ELSE changes.MarkUnwatched

(* The list a row's move leads to. *)
AskedTarget(changes) ==
    IF "MarkWatched" \in DOMAIN changes THEN Watched ELSE WantToWatch

(* Whether the changes of a row hold an edited rating. *)
AsksRating(changes) == "HasRating" \in DOMAIN changes /\ changes.HasRating

(* C23: every step a run takes for a row marked Delete removes that row    *)
(* and writes nothing else, whatever else the row was marked with; every   *)
(* step a run takes for a row marked for a move and not Delete is the      *)
(* status update to the other list or the clearing of the rating that      *)
(* follows it, so a rating edited on that row is never written.            *)
C23_DeleteThenMoveThenRate ==
    [][\A s \in Sessions :
          (sess[s].queue # <<>> /\ sess'[s] # sess[s]) =>
              LET h == Head(sess[s].queue)
              IN  /\ h.changes.Delete => movies' = {m \in movies : m.id # h.id}
                  /\ (~h.changes.Delete /\ AsksMove(h.changes)) =>
                        movies' = {IF m.id # h.id THEN m
                                   ELSE IF sess[s].mid
                                   THEN [m EXCEPT !.user_rating = None]
                                   ELSE [m EXCEPT !.status = AskedTarget(h.changes)] :
                                   m \in movies}]_vars

(* A run has updated the status of a rated row that was marked for a move  *)
(* with a new rating typed in, and another row marked Delete and for a     *)
(* move has been confirmed.                                                *)
C23_Witness ==
    \E s \in Sessions :
        /\ sess[s].queue # <<>>
        /\ sess[s].mid
        /\ LET h == Head(sess[s].queue)
           IN  /\ ~h.changes.Delete
               /\ AsksMove(h.changes)
               /\ AsksRating(h.changes)
               /\ h.changes.UserRating = MaxRating
               /\ \E m \in movies : m.id = h.id /\ m.status = WantToWatch

---------------------------------------------------------------------------
(* Properties of the list editors beside other sessions, under SpecShared. *)

(* C24: every delete, status update and rating update a session's run      *)
(* issues names an entry that, if it is still in the table, belongs to the *)
(* account the session is logged in to, and the step leaves every entry of *)
(* every other account as it was, also when the listing the run read has   *)
(* since lost entries to deletes.                                          *)
C24_OnlyOwnEntries ==
    [][\A s \in Sessions :
          (sess[s].queue # <<>> /\ sess'[s] # sess[s]) =>
              /\ \A m \in movies : m.id = Head(sess[s].queue).id => m.user_id = sess[s].user_id
              /\ RowsNotOf(movies', sess[s].user_id) = RowsNotOf(movies, sess[s].user_id)]_vars

(* A run is about to act on an entry that is no longer in the table, while *)
(* another account has an entry that was added after the run read its      *)
(* listing.                                                                *)
C24_Witness ==
    \E s \in Sessions :
        /\ sess[s].queue # <<>>
        /\ ~\E m \in movies : m.id = Head(sess[s].queue).id
        /\ \E m \in movies : m.user_id # sess[s].user_id /\ m.id > Head(sess[s].queue).id

---------------------------------------------------------------------------
(* Properties of the clear-all flow, under SpecForms. *)

(* C25: the run that follows ticking "Are you absolutely sure?", once the  *)
(* option was shown and the "Clear My Entire Movie List" button pressed,   *)
(* calls delete_all_movies_for_user for the session's account and leaves   *)
(* that account without entries.                                           *)
C25_ConfirmedClearDeletes ==
    [][\A s \in Sessions :
          (/\ ui[s].confirm_shown
           /\ ui'[s].event = "tick_confirm"
           /\ ~ui'[s].confirm_shown) =>
              /\ ui'[s].deleted
              /\ ~\E m \in movies' : m.user_id = sess[s].user_id]_vars

=============================================================================
